---- MODULE Spec2Model ----
(***************************************************************************)
(* The Signer of packages/sdk/src/client-auth-server/Signer.ts: the        *)
(* account/session state machine, the handshake, chain switching and the   *)
(* local-versus-remote dispatch of wallet RPC requests.                    *)
(*                                                                         *)
(* JavaScript values are modelled as follows.  null and undefined are the  *)
(* record Null; an absent activeChainId (undefined, or the falsy 0) is the *)
(* number NoChainId; lists are sequences.  One public call runs at a time  *)
(* (the single-threaded, non-overlapping use the Signer is written for);   *)
(* an asynchronous call is a sequence of steps, one per await, whose       *)
(* position is pc and whose locals are call.                               *)
(***************************************************************************)
EXTENDS Integers, Sequences, FiniteSets, TLC

VARIABLES
  phase,              \* "new": not constructed; "ready": constructed; "failed": constructor threw
  chains,             \* this.chains: the configured chain ids, in order
  sessionParameters,  \* TRUE iff a session-preferences provider was supplied
  _account,           \* the value stored in the Account cell (Null or an Account)
  _chainsInfo,        \* the value stored in the ChainsInfo cell (a list of entries)
  walletClient,       \* this.walletClient (Null or a session client)
  pc,                 \* position of the call in flight: "idle" or the await it is suspended at
  call,               \* the locals of the call in flight
  last                \* the most recently completed call: its arguments, outcome and effects

vars == <<phase, chains, sessionParameters, _account, _chainsInfo, walletClient, pc, call, last>>

-----------------------------------------------------------------------------
(* Bounds and sample values *)

\* Longest ChainsInfo list the remote authorizer returns.
MaxChainsInfo == 2

\* Chain ids the remote authorizer or a caller may name.
ChainIds == {1, 2}

\* The constructor parameters tried: the chain list (the empty one is
\* rejected) and whether a session-preferences provider is supplied.
ConstructorParams ==
  {[chains |-> << >>, session |-> FALSE],
   [chains |-> <<1>>, session |-> FALSE],
   [chains |-> <<1>>, session |-> TRUE],
   [chains |-> <<1, 2>>, session |-> FALSE],
   [chains |-> <<2, 1>>, session |-> TRUE]}

Null == [null |-> TRUE]
NoChainId == 0

Addresses == {"0xA", "0xB"}
Sessions == {[sessionKey |-> "key1", sessionConfig |-> "config1"]}

\* The entries of ChainsInfo tried: a chain id, its contract set and its
\* capabilities.  Chain 1 has two descriptions, so that a list may describe
\* it twice and two handshakes may describe it differently.
ChainInfoEntries ==
  {[id |-> 1, contracts |-> "contracts1", capabilities |-> "capabilities1"],
   [id |-> 1, contracts |-> "contracts1b", capabilities |-> "capabilities1b"],
   [id |-> 2, contracts |-> "contracts2", capabilities |-> "capabilities2"]}

RECURSIVE SeqsUpTo(_, _)
SeqsUpTo(S, n) ==
  IF n = 0 THEN {<< >>}
  ELSE LET shorter == SeqsUpTo(S, n - 1)
       IN  shorter \cup {Append(s, e) : s \in {t \in shorter : Len(t) = n - 1}, e \in S}

ChainsInfos == SeqsUpTo(ChainInfoEntries, MaxChainsInfo)

Accounts ==
  [address : Addresses, activeChainId : ChainIds, session : Sessions \cup {Null}]

\* What the communicator may reject with, and what the remote authorizer may
\* answer as an error.
CommErrors == {"popup blocked"}
RemoteErrors == {"user rejected"}

\* The result of a successful eth_requestAccounts.
HandshakeResults ==
  [account : [address : Addresses,
              activeChainId : ChainIds \cup {NoChainId},
              session : Sessions \cup {Null}],
   chainsInfo : ChainsInfos]

-----------------------------------------------------------------------------
(* Array.prototype.find *)

RECURSIVE FindChainInfo(_, _)
FindChainInfo(info, chainId) ==
  IF info = << >> THEN Null
  ELSE IF Head(info).id = chainId THEN Head(info)
  ELSE FindChainInfo(Tail(info), chainId)

RECURSIVE FindChain(_, _)
FindChain(list, chainId) ==
  IF list = << >> THEN NoChainId
  ELSE IF Head(list) = chainId THEN Head(list)
  ELSE FindChain(Tail(list), chainId)

-----------------------------------------------------------------------------
(* The getters of the Signer, as functions of the stored values *)

\* Mutant: the stored account as it is, without the fallback to the first
\* configured chain.
Account_NoFallback(cell) == cell

\* get account(): the stored account with its activeChainId resolved against
\* the configured chains (chain?.id || this.chains[0].id).
Account(cell) ==
  IF cell = Null THEN Null
  ELSE LET chain == FindChain(chains, cell.activeChainId)
       IN  [cell EXCEPT !.activeChainId =
              IF chain # NoChainId THEN chain ELSE chains[1]]

\* get session()
Session(cell) == IF Account(cell) = Null THEN Null ELSE Account(cell).session

\* get accounts()
AccountsOf(cell) == IF Account(cell) # Null THEN <<Account(cell).address>> ELSE << >>

\* get chain(): the id of the chain it returns (NoChainId when find() finds none).
Chain(cell) ==
  LET activeChainId == IF Account(cell) = Null THEN NoChainId ELSE Account(cell).activeChainId
      chainId == IF activeChainId # NoChainId THEN activeChainId ELSE chains[1]
  IN  FindChain(chains, chainId)

-----------------------------------------------------------------------------
(* Listener notifications and the effect of a synchronous piece of code *)

AccountsNote(list) == [kind |-> "onAccountsUpdate", accounts |-> list, chainId |-> NoChainId]
ChainNote(id) == [kind |-> "onChainUpdate", accounts |-> << >>, chainId |-> id]

\* The outcome of running a piece of code on the state (cell, info, wc): the
\* state it leaves, the notifications it sent, and what it returned or threw.
Effect(cell, info, wc, notes, threw, error, value) ==
  [account |-> cell, chainsInfo |-> info, walletClient |-> wc,
   notes |-> notes, threw |-> threw, error |-> error, value |-> value]

-----------------------------------------------------------------------------
(* Session client factory and createWalletClient *)

\* createZksyncSessionClient({address, sessionKey, sessionConfig, contracts, chain, transport})
SessionClient(address, session, contracts, chain) ==
  [address |-> address, sessionKey |-> session.sessionKey,
   sessionConfig |-> session.sessionConfig, contracts |-> contracts, chain |-> chain]

\* Mutant: the branch that resets this.walletClient when the account has no
\* session is missing.
CreateWalletClient_KeepsStale(cell, info, wc) ==
  LET session == Session(cell)
      chain == Chain(cell)
      chainInfo == FindChainInfo(info, chain)
  IN  IF Account(cell) = Null
        THEN [threw |-> TRUE, error |-> "Account is not set", walletClient |-> wc]
      ELSE IF chainInfo = Null
        THEN [threw |-> TRUE, error |-> "Chain info wasn't set during handshake",
              walletClient |-> wc]
      ELSE IF session # Null
        THEN [threw |-> FALSE, error |-> "",
              walletClient |->
                SessionClient(Account(cell).address, session, chainInfo.contracts, chain)]
      ELSE [threw |-> FALSE, error |-> "", walletClient |-> wc]

\* createWalletClient(), run with cell in the Account cell: the new value of
\* this.walletClient, or the error thrown (this.walletClient is then untouched).
CreateWalletClient(cell, info, wc) ==
  LET session == Session(cell)
      chain == Chain(cell)
      chainInfo == FindChainInfo(info, chain)
  IN  IF Account(cell) = Null
        THEN [threw |-> TRUE, error |-> "Account is not set", walletClient |-> wc]
      ELSE IF chainInfo = Null
        THEN [threw |-> TRUE, error |-> "Chain info wasn't set during handshake",
              walletClient |-> wc]
      ELSE IF session # Null
        THEN [threw |-> FALSE, error |-> "",
              walletClient |->
                SessionClient(Account(cell).address, session, chainInfo.contracts, chain)]
      ELSE [threw |-> FALSE, error |-> "", walletClient |-> Null]

-----------------------------------------------------------------------------
(* The Account cell: its onChange callback, set() and remove() *)

\* The onChange callback the constructor gives the Account cell.
OnChange(newValue, info, wc) ==
  IF newValue # Null
    THEN LET built == CreateWalletClient(newValue, info, wc)
         IN  Effect(newValue, info, built.walletClient,
                    <<AccountsNote(<<newValue.address>>), ChainNote(newValue.activeChainId)>>,
                    built.threw, built.error, Null)
    ELSE Effect(newValue, info, wc, <<AccountsNote(<< >>)>>, FALSE, "", Null)

\* StorageItem.set on the Account cell: store the value, then call onChange
\* with it.
AccountSet(newValue, info, wc) == OnChange(newValue, info, wc)

\* StorageItem.remove on the Account cell: back to the default, null.
AccountRemove(info, wc) == AccountSet(Null, info, wc)

\* StorageItem.remove on the ChainsInfo cell: back to the default, [].
ChainsInfoRemove == << >>

\* Mutant: only the Account cell is removed.
ClearState_KeepsChainsInfo(info, wc) == AccountRemove(info, wc)

\* clearState(): this._account.remove(); this._chainsInfo.remove()
ClearState(info, wc) ==
  LET removed == AccountRemove(info, wc)
  IN  [removed EXCEPT !.chainsInfo = ChainsInfoRemove]

-----------------------------------------------------------------------------
(* getClient and switchChain *)

\* getClient(parameters): chainId is parameters?.chainId, NoChainId when absent.
GetClient(chainId, cell, info, wc) ==
  LET wanted == IF chainId # NoChainId THEN chainId ELSE Chain(cell)
      chain == FindChain(chains, wanted)
  IN  IF chain = NoChainId
        THEN Effect(cell, info, wc, << >>, TRUE, "Chain is not supported", Null)
      ELSE IF wc = Null
        THEN Effect(cell, info, wc, << >>, TRUE, "Wallet client is not created", Null)
      ELSE Effect(cell, info, wc, << >>, FALSE, "", wc)

\* {...this.account!, activeChainId}: spreading null gives an object with no
\* address and no session.
WithActiveChain(account, chainId) ==
  IF account = Null
    THEN [address |-> "undefined", activeChainId |-> chainId, session |-> Null]
    ELSE [account EXCEPT !.activeChainId = chainId]

\* Mutant: the check that ChainsInfo describes the chain is missing.
SwitchChain_NoInfoCheck(chainId, cell, info, wc) ==
  LET chain == FindChain(chains, chainId)
  IN  IF chain = NoChainId THEN Effect(cell, info, wc, << >>, FALSE, "", FALSE)
      ELSE IF chain = Chain(cell) THEN Effect(cell, info, wc, << >>, FALSE, "", TRUE)
      ELSE LET set == AccountSet(WithActiveChain(Account(cell), chain), info, wc)
           IN  [set EXCEPT !.value = TRUE]

\* Mutant: the return for the chain that is already active is missing.
SwitchChain_NoEarlyReturn(chainId, cell, info, wc) ==
  LET chain == FindChain(chains, chainId)
      chainInfo == FindChainInfo(info, chainId)
  IN  IF chainInfo = Null THEN Effect(cell, info, wc, << >>, FALSE, "", FALSE)
      ELSE IF chain = NoChainId THEN Effect(cell, info, wc, << >>, FALSE, "", FALSE)
      ELSE LET set == AccountSet(WithActiveChain(Account(cell), chain), info, wc)
           IN  [set EXCEPT !.value = TRUE]

\* switchChain(chainId)
SwitchChain(chainId, cell, info, wc) ==
  LET chain == FindChain(chains, chainId)
      chainInfo == FindChainInfo(info, chainId)
  IN  IF chainInfo = Null THEN Effect(cell, info, wc, << >>, FALSE, "", FALSE)
      ELSE IF chain = NoChainId THEN Effect(cell, info, wc, << >>, FALSE, "", FALSE)
      ELSE IF chain = Chain(cell) THEN Effect(cell, info, wc, << >>, FALSE, "", TRUE)
      ELSE LET set == AccountSet(WithActiveChain(Account(cell), chain), info, wc)
           IN  [set EXCEPT !.value = TRUE]

-----------------------------------------------------------------------------
(* Requests, messages and the record of a call *)

Undefined == "undefined"

\* metadata of handshake() when this.getMetadata() throws
DefaultMetadata == [name |-> "Unknown DApp", icon |-> "null"]
AppMetadata == [name |-> "My DApp", icon |-> "icon.png"]

\* A chain id as a caller passes it: a number, or a hex string given by its
\* digits after "0x".
NumberParam(n) == [kind |-> "number", n |-> n, digits |-> << >>]
StringParam(digits) == [kind |-> "string", n |-> NoChainId, digits |-> digits]
NoParam == [kind |-> "none", n |-> NoChainId, digits |-> << >>]

ChainIdParams ==
  {NumberParam(n) : n \in ChainIds}
    \cup {StringParam(d) : d \in {<<1>>, <<2>>, <<1, 0>>}}

\* viem's hexToNumber on the digits of a hex string
RECURSIVE HexToNumber(_)
HexToNumber(digits) ==
  IF digits = << >> THEN 0
  ELSE 16 * HexToNumber(SubSeq(digits, 1, Len(digits) - 1)) + digits[Len(digits)]

LocalMethods == {"eth_estimateGas", "eth_sendTransaction"}
Methods ==
  LocalMethods \cup
    {"wallet_switchEthereumChain", "wallet_getCapabilities", "eth_accounts", "personal_sign"}

ParamsOf(method) ==
  IF method = "wallet_switchEthereumChain" THEN ChainIdParams ELSE {NoParam}

\* What the local session client resolves with, and what the remote
\* authorizer answers to a forwarded request.
LocalResults == {"0xlocal", Undefined}
LocalErrors == {"execution reverted"}
RemoteResults == {"0xremote"}

\* createRequestMessage(content): the content; the id is a fresh random UUID.
CreateRequestMessage(action, chainId) == [action |-> action, chainId |-> chainId]

\* The locals of a call: what it was asked, how the providers of a handshake
\* answered, and what it has done to the communicator and to the local
\* session client so far.
NewCall(op, method, param) ==
  [op |-> op, method |-> method, param |-> param,
   providers |-> [metadata |-> "none", session |-> "none"],
   metadata |-> Null, sessionPreferences |-> Null,
   localCalls |-> << >>, readyCalls |-> 0, posted |-> << >>]

NoCall == NewCall("none", "", NoParam)

\* A completed call: what it was asked, how often it called ready() and how
\* many messages it posted, the clients it invoked, and its effect.
Completed(c, effect, response) ==
  [op |-> c.op, method |-> c.method, param |-> c.param,
   localCalls |-> c.localCalls, readyCalls |-> c.readyCalls, posted |-> Len(c.posted),
   outcome |-> IF effect.threw THEN "threw" ELSE "ok",
   error |-> effect.error, value |-> effect.value, notes |-> effect.notes,
   response |-> response]

NoLast == Completed(NoCall, Effect(Null, << >>, Null, << >>, FALSE, "", Null), Null)

\* The state as the effect of a piece of code that changed nothing.
Same(threw, error, value) ==
  Effect(_account, _chainsInfo, walletClient, << >>, threw, error, value)

\* Leave the call: install the effect and record the completed call.
Finish(c, effect, response) ==
  /\ _account' = effect.account
  /\ _chainsInfo' = effect.chainsInfo
  /\ walletClient' = effect.walletClient
  /\ pc' = "idle"
  /\ call' = NoCall
  /\ last' = Completed(c, effect, response)

\* Suspend the call at an await.
Suspend(at, c) ==
  /\ pc' = at
  /\ call' = c
  /\ last' = NoLast
  /\ UNCHANGED <<_account, _chainsInfo, walletClient>>

Idle == phase = "ready" /\ pc = "idle"

-----------------------------------------------------------------------------
(* Construction *)

Init ==
  /\ phase = "new"
  /\ \E params \in ConstructorParams :
       chains = params.chains /\ sessionParameters = params.session
  /\ \/ _account = Null /\ _chainsInfo = << >>
     \/ _account \in Accounts /\ _chainsInfo \in ChainsInfos
  /\ walletClient = Null
  /\ pc = "idle"
  /\ call = NoCall
  /\ last = NoLast

\* Mutant: the constructor does not catch what createWalletClient throws.
Resume_Rethrows(cell, info, wc) ==
  IF Account(cell) = Null THEN Effect(cell, info, wc, << >>, FALSE, "", Null)
  ELSE LET built == CreateWalletClient(cell, info, wc)
       IN  Effect(cell, info, built.walletClient, << >>, built.threw, built.error, Null)

\* The body of the constructor once the chain list is accepted: rebuild the
\* client of a stored account, and log out when that throws.
Resume(cell, info, wc) ==
  IF Account(cell) = Null THEN Effect(cell, info, wc, << >>, FALSE, "", Null)
  ELSE LET built == CreateWalletClient(cell, info, wc)
       IN  IF built.threw THEN ClearState(info, wc)
           ELSE Effect(cell, info, built.walletClient, << >>, FALSE, "", Null)

\* new Signer({chains, ...})
Construct ==
  /\ phase = "new"
  /\ IF Len(chains) = 0
       THEN /\ phase' = "failed"
            /\ Finish(NewCall("constructor", "", NoParam),
                      Same(TRUE, "At least one chain must be included in the config", Null),
                      Null)
       ELSE /\ phase' = "ready"
            /\ Finish(NewCall("constructor", "", NoParam),
                      Resume(_account, _chainsInfo, walletClient), Null)
  /\ UNCHANGED <<chains, sessionParameters>>

-----------------------------------------------------------------------------
(* sendRpcRequest: ready(), then one message, then the response *)

\* Mutant: the message is posted at once, without waiting for ready().
SendRpcRequest_PostsWithoutReady(c) ==
  Suspend("post",
    [c EXCEPT !.posted =
       Append(@, CreateRequestMessage(
                   IF c.op = "handshake"
                     THEN [method |-> c.method,
                           params |-> [metadata |-> c.metadata,
                                       sessionPreferences |-> c.sessionPreferences]]
                     ELSE [method |-> c.method, params |-> c.param],
                   Chain(_account)))])

\* sendRpcRequest up to its first await: this.communicator.ready() is called.
SendRpcRequest(c) == Suspend("ready", [c EXCEPT !.readyCalls = @ + 1])

\* The action of the message of a call: the request it forwards.
ActionOf(c) ==
  IF c.op = "handshake"
    THEN [method |-> c.method,
          params |-> [metadata |-> c.metadata, sessionPreferences |-> c.sessionPreferences]]
    ELSE [method |-> c.method, params |-> c.param]

\* ready() resolved: the message is created with the chain active now and
\* posted.
ReadyResolved ==
  /\ pc = "ready"
  /\ Suspend("post",
       [call EXCEPT !.posted =
          Append(@, CreateRequestMessage(ActionOf(call), Chain(_account)))])
  /\ UNCHANGED <<phase, chains, sessionParameters>>

\* ready() rejected: the call fails with that error.
ReadyRejected ==
  /\ pc = "ready"
  /\ \E e \in CommErrors : Finish(call, Same(TRUE, e, Null), Null)
  /\ UNCHANGED <<phase, chains, sessionParameters>>

\* postRequestAndWaitForResponse rejected.
PostRejected ==
  /\ pc = "post"
  /\ \E e \in CommErrors : Finish(call, Same(TRUE, e, Null), Null)
  /\ UNCHANGED <<phase, chains, sessionParameters>>

-----------------------------------------------------------------------------
(* handshake *)

SessionPreferences == [feeLimit |-> "1 ETH"]

\* Mutant: the account keeps the chain that was active, whatever the
\* response says.
Handshake_KeepsChain(handshakeData, cell, info, wc) ==
  LET newValue ==
        [address |-> handshakeData.account.address,
         activeChainId |-> Chain(cell),
         session |-> handshakeData.account.session]
      set == AccountSet(newValue, handshakeData.chainsInfo, wc)
  IN  IF set.threw THEN set ELSE [set EXCEPT !.value = AccountsOf(set.account)]

\* handshake() after the response: persist chainsInfo, then the account
\* (whose onChange may throw), and return this.accounts.
Handshake(handshakeData, cell, info, wc) ==
  LET newValue ==
        [address |-> handshakeData.account.address,
         activeChainId |->
           IF handshakeData.account.activeChainId # NoChainId
             THEN handshakeData.account.activeChainId
             ELSE Chain(cell),
         session |-> handshakeData.account.session]
      set == AccountSet(newValue, handshakeData.chainsInfo, wc)
  IN  IF set.threw THEN set ELSE [set EXCEPT !.value = AccountsOf(set.account)]

\* Mutant: a refused handshake logs the user out.
HandshakeResponse_ClearsOnError(content, cell, info, wc) ==
  IF "error" \in DOMAIN content
    THEN [ClearState(info, wc) EXCEPT !.threw = TRUE, !.error = content.error]
    ELSE Handshake(content.result, cell, info, wc)

\* handshake() from the response of sendRpcRequest on: error-shaped content
\* is thrown before anything is persisted.
HandshakeResponse(content, cell, info, wc) ==
  IF "error" \in DOMAIN content
    THEN Effect(cell, info, wc, << >>, TRUE, content.error, Null)
    ELSE Handshake(content.result, cell, info, wc)

\* Mutant: nothing stands in for the metadata when the provider throws.
GatherMetadata_NoDefault(outcome) ==
  IF outcome = "returned" THEN AppMetadata ELSE Null

\* metadata after try { metadata = this.getMetadata() } catch: what the
\* provider returned, or the default when it threw.
GatherMetadata(outcome) ==
  IF outcome = "returned" THEN AppMetadata ELSE DefaultMetadata

\* sessionPreferences after try { await this.sessionParameters() } catch: what
\* the provider resolved with, or undefined when it threw or rejected.
ResolveSessionPreferences(outcome) ==
  IF outcome = "resolved" THEN SessionPreferences ELSE Null

\* handshake() up to its first await: the metadata provider returns or
\* throws; the session provider, when there is one, is called and returns a
\* promise, or throws at once.
HandshakeStart ==
  /\ Idle
  /\ \E m \in {"returned", "threw"} :
     \E s \in IF sessionParameters THEN {"called", "threw"} ELSE {"none"} :
       LET c == [NewCall("handshake", "eth_requestAccounts", NoParam)
                   EXCEPT !.providers = [metadata |-> m, session |-> s],
                          !.metadata = GatherMetadata(m),
                          !.sessionPreferences = ResolveSessionPreferences(s)]
       IN  IF s = "called" THEN Suspend("session", c) ELSE SendRpcRequest(c)
  /\ UNCHANGED <<phase, chains, sessionParameters>>

\* await this.sessionParameters() settled: resolved, or rejected and logged.
SessionSettled ==
  /\ pc = "session"
  /\ \E s \in {"resolved", "rejected"} :
       SendRpcRequest([call EXCEPT !.providers.session = s,
                                   !.sessionPreferences = ResolveSessionPreferences(s)])
  /\ UNCHANGED <<phase, chains, sessionParameters>>

\* The response to eth_requestAccounts arrived.
HandshakeResponded ==
  /\ pc = "post"
  /\ call.op = "handshake"
  /\ \E content \in {[error |-> e] : e \in RemoteErrors}
                      \cup {[result |-> r] : r \in HandshakeResults} :
       Finish(call, HandshakeResponse(content, _account, _chainsInfo, walletClient), content)
  /\ UNCHANGED <<phase, chains, sessionParameters>>

-----------------------------------------------------------------------------
(* request *)

\* What tryLocalHandling answers:
\*   "invoke"    the local session client is called and awaited;
\*   "undefined" not handled locally;
\*   "result"    handled: effect holds the value returned or the error thrown.
Local(kind, effect) == [kind |-> kind, effect |-> effect]

\* Mutant: the guard tests this.walletClient only, not the session.
LocalSigning_ClientOnly(cell, info, wc) ==
  IF wc = Null
    THEN Local("undefined", Effect(cell, info, wc, << >>, FALSE, "", Null))
    ELSE Local("invoke", Effect(cell, info, wc, << >>, FALSE, "", Null))

\* case "eth_estimateGas", case "eth_sendTransaction"
LocalSigning(cell, info, wc) ==
  IF wc = Null \/ Session(cell) = Null
    THEN Local("undefined", Effect(cell, info, wc, << >>, FALSE, "", Null))
    ELSE Local("invoke", Effect(cell, info, wc, << >>, FALSE, "", Null))

\* Mutant: a hex string is passed to switchChain as it is, and equals no
\* chain id.
LocalSwitchChain_NoNormalize(param, cell, info, wc) ==
  LET chainId == IF param.kind = "string" THEN NoChainId ELSE param.n
      switched == SwitchChain(chainId, cell, info, wc)
  IN  IF switched.threw THEN Local("result", switched)
      ELSE IF switched.value THEN Local("result", [switched EXCEPT !.value = "null"])
      ELSE Local("undefined", switched)

\* case "wallet_switchEthereumChain"
LocalSwitchChain(param, cell, info, wc) ==
  LET chainId == IF param.kind = "string" THEN HexToNumber(param.digits) ELSE param.n
      switched == SwitchChain(chainId, cell, info, wc)
  IN  IF switched.threw THEN Local("result", switched)
      ELSE IF switched.value THEN Local("result", [switched EXCEPT !.value = "null"])
      ELSE Local("undefined", switched)

\* Mutant: with no entry for the active chain the case returns undefined,
\* and the request is forwarded.
LocalGetCapabilities_ForwardsWhenUnset(cell, info, wc) ==
  LET chainInfo == FindChainInfo(info, Chain(cell))
  IN  IF chainInfo = Null
        THEN Local("undefined", Effect(cell, info, wc, << >>, FALSE, "", Null))
        ELSE Local("result",
                   Effect(cell, info, wc, << >>, FALSE, "",
                          [chainId |-> Chain(cell), capabilities |-> chainInfo.capabilities]))

\* case "wallet_getCapabilities"
LocalGetCapabilities(cell, info, wc) ==
  LET chainInfo == FindChainInfo(info, Chain(cell))
  IN  IF chainInfo = Null
        THEN Local("result", Effect(cell, info, wc, << >>, TRUE, "Chain info is not set", Null))
        ELSE Local("result",
                   Effect(cell, info, wc, << >>, FALSE, "",
                          [chainId |-> Chain(cell), capabilities |-> chainInfo.capabilities]))

\* Mutant: with no account connected the case returns undefined instead of
\* the empty list.
LocalAccounts_UndefinedWhenEmpty(cell, info, wc) ==
  IF AccountsOf(cell) = << >>
    THEN Local("undefined", Effect(cell, info, wc, << >>, FALSE, "", Null))
    ELSE Local("result", Effect(cell, info, wc, << >>, FALSE, "", AccountsOf(cell)))

\* case "eth_accounts"
LocalAccounts(cell, info, wc) ==
  Local("result", Effect(cell, info, wc, << >>, FALSE, "", AccountsOf(cell)))

\* tryLocalHandling(request) up to its first await or its return
TryLocalHandling(method, param, cell, info, wc) ==
  IF method \in LocalMethods THEN LocalSigning(cell, info, wc)
  ELSE IF method = "wallet_switchEthereumChain" THEN LocalSwitchChain(param, cell, info, wc)
  ELSE IF method = "wallet_getCapabilities" THEN LocalGetCapabilities(cell, info, wc)
  ELSE IF method = "eth_accounts" THEN LocalAccounts(cell, info, wc)
  ELSE Local("undefined", Effect(cell, info, wc, << >>, FALSE, "", Null))

\* request(request) up to its first await or its return.
RequestStart ==
  /\ Idle
  /\ \E method \in Methods : \E param \in ParamsOf(method) :
       LET c == NewCall("request", method, param)
           local == TryLocalHandling(method, param, _account, _chainsInfo, walletClient)
       IN  CASE local.kind = "result" -> Finish(c, local.effect, Null)
             [] local.kind = "invoke" ->
                  Suspend("local", [c EXCEPT !.localCalls = Append(@, walletClient)])
             [] local.kind = "undefined" -> SendRpcRequest(c)
  /\ UNCHANGED <<phase, chains, sessionParameters>>

\* The local session client resolved: request() returns its result unless
\* that is undefined, and then forwards the request.
LocalResolved ==
  /\ pc = "local"
  /\ \E res \in LocalResults :
       IF res # Undefined
         THEN Finish(call, Same(FALSE, "", res), Null)
         ELSE SendRpcRequest(call)
  /\ UNCHANGED <<phase, chains, sessionParameters>>

\* The local session client rejected.
LocalRejected ==
  /\ pc = "local"
  /\ \E e \in LocalErrors : Finish(call, Same(TRUE, e, Null), Null)
  /\ UNCHANGED <<phase, chains, sessionParameters>>

\* The response to a forwarded request arrived: sendRpcRequest throws its
\* error, request() returns its result.
RequestResponded ==
  /\ pc = "post"
  /\ call.op = "request"
  /\ \E content \in {[error |-> e] : e \in RemoteErrors}
                      \cup {[result |-> r] : r \in RemoteResults} :
       Finish(call,
              IF "error" \in DOMAIN content
                THEN Same(TRUE, content.error, Null)
                ELSE Same(FALSE, "", content.result),
              content)
  /\ UNCHANGED <<phase, chains, sessionParameters>>

-----------------------------------------------------------------------------
(* The synchronous public calls *)

SwitchChainCall ==
  /\ Idle
  /\ \E chainId \in ChainIds :
       Finish(NewCall("switchChain", "", NumberParam(chainId)),
              SwitchChain(chainId, _account, _chainsInfo, walletClient), Null)
  /\ UNCHANGED <<phase, chains, sessionParameters>>

\* disconnect(): clearState()
Disconnect ==
  /\ Idle
  /\ Finish(NewCall("disconnect", "", NoParam), ClearState(_chainsInfo, walletClient), Null)
  /\ UNCHANGED <<phase, chains, sessionParameters>>

-----------------------------------------------------------------------------

Next ==
  \/ Construct
  \/ HandshakeStart
  \/ SessionSettled
  \/ ReadyResolved
  \/ ReadyRejected
  \/ PostRejected
  \/ HandshakeResponded
  \/ RequestStart
  \/ LocalResolved
  \/ LocalRejected
  \/ RequestResponded
  \/ SwitchChainCall
  \/ Disconnect

Spec == Init /\ [][Next]_vars

-----------------------------------------------------------------------------
(* Properties *)

Cells == <<_account, _chainsInfo, walletClient>>

IsConfigured(chainId) == FindChain(chains, chainId) # NoChainId

\* handshake() has just returned (it did not throw).
HandshakeReturned == last.op = "handshake" /\ last.outcome = "ok"

\* The account of the response of the handshake that has just completed.
ResponseAccount == last.response.result.account

\* C1, as stated: after a handshake() that returns, accounts is the one
\* address of the response and chain is the chain the response names, or the
\* chain the Signer was on when the response names none.
C1_AsStated ==
  [][HandshakeReturned' =>
       LET account == last'.response.result.account
       IN  /\ AccountsOf(_account') = <<account.address>>
           /\ Chain(_account') =
                IF account.activeChainId # NoChainId THEN account.activeChainId
                ELSE Chain(_account)]_vars

\* C1, amended: after a handshake() that returns, accounts is the one address
\* of the response, and chain is the chain the response names when that chain
\* is configured, the first configured chain when it is not, and the chain
\* the Signer was on when the response names none.
C1_HandshakeSetsAccountAndChain ==
  [][HandshakeReturned' =>
       LET account == last'.response.result.account
       IN  /\ AccountsOf(_account') = <<account.address>>
           /\ last'.value = <<account.address>>
           /\ Chain(_account') =
                IF account.activeChainId = NoChainId THEN Chain(_account)
                ELSE IF IsConfigured(account.activeChainId) THEN account.activeChainId
                ELSE chains[1]]_vars

\* A handshake returned whose response named chain 2 and address 0xB, and the
\* Signer is on chain 2 with that one account.
C1_Witness ==
  /\ HandshakeReturned
  /\ ResponseAccount.activeChainId = 2
  /\ ResponseAccount.address = "0xB"
  /\ Chain(_account) = 2
  /\ AccountsOf(_account) = <<"0xB">>

\* handshake() has just failed because the communicator rejected (no
\* response) or answered with error-shaped content.
HandshakeRefused ==
  /\ last.op = "handshake"
  /\ last.outcome = "threw"
  /\ \/ last.response = Null
     \/ "error" \in DOMAIN last.response

\* C2: a handshake() that fails because the communicator rejects or answers
\* with an error throws that error, and no step of it writes the Account
\* cell, the ChainsInfo cell or the session client, or notifies the listener.
C2_RefusedHandshakePersistsNothing ==
  [][/\ (call.op = "handshake" \/ call'.op = "handshake") /\ pc' # "idle"
          => UNCHANGED Cells
     /\ HandshakeRefused'
          => /\ UNCHANGED Cells
             /\ last'.notes = << >>
             /\ IF last'.response = Null THEN last'.error \in CommErrors
                ELSE last'.error = last'.response.error]_vars

\* A connected Signer whose new handshake the remote authorizer refused.
C2_Witness ==
  /\ HandshakeRefused
  /\ last.response # Null
  /\ _account # Null
  /\ last.posted = 1

\* C3, as stated: eth_sendTransaction and eth_estimateGas invoke the local
\* session client if and only if the current account has a session.
C3_AsStated ==
  Idle => \A method \in LocalMethods :
            (TryLocalHandling(method, NoParam, _account, _chainsInfo, walletClient).kind
               = "invoke")
              <=> Session(_account) # Null

\* A request for eth_sendTransaction or eth_estimateGas that did not invoke
\* the local session client is in flight.
ForwardedSigning ==
  call.op = "request" /\ call.method \in LocalMethods /\ call.localCalls = << >>

\* C3, amended: eth_sendTransaction and eth_estimateGas invoke the local
\* session client if and only if a local session client exists and the
\* current account has a session; otherwise the client is not invoked, ready()
\* is called once and one message is posted, carrying the request and the id
\* of the active chain.
C3_LocalIffClientAndSession ==
  /\ [][pc = "idle" /\ call'.op = "request" /\ call'.method \in LocalMethods =>
          IF walletClient # Null /\ Session(_account) # Null
            THEN pc' = "local" /\ call'.localCalls = <<walletClient>>
                 /\ call'.readyCalls = 0 /\ call'.posted = << >>
            ELSE pc' = "ready" /\ call'.localCalls = << >>
                 /\ call'.readyCalls = 1 /\ call'.posted = << >>]_vars
  /\ [](ForwardedSigning =>
          /\ call.readyCalls = 1
          /\ pc \in {"ready", "post"}
          /\ pc = "ready" => call.posted = << >>
          /\ pc = "post" =>
               call.posted = <<CreateRequestMessage(
                                 [method |-> call.method, params |-> call.param],
                                 Chain(_account))>>)
  /\ [](last.op = "request" /\ last.method \in LocalMethods /\ last.localCalls = << >> =>
          /\ last.readyCalls = 1
          /\ last.response # Null => last.posted = 1
          /\ last.posted \in {0, 1})

\* An account with a session but no local session client: its
\* eth_sendTransaction was forwarded in one message.
C3_Witness ==
  /\ pc = "post"
  /\ ForwardedSigning
  /\ call.method = "eth_sendTransaction"
  /\ Session(_account) # Null
  /\ walletClient = Null

\* C4: switchChain(id) returns true, with chain resolving to id, if and only
\* if id is a configured chain that ChainsInfo describes; otherwise it returns
\* false, does not throw, and leaves the cells and the session client as they
\* were.
C4_SwitchChainIffConfiguredAndDescribed ==
  [][last'.op = "switchChain" =>
       LET chainId == last'.param.n
           known == IsConfigured(chainId) /\ FindChainInfo(_chainsInfo, chainId) # Null
       IN  /\ last'.outcome = "ok"
           /\ last'.value = known
           /\ known => Chain(_account') = chainId
           /\ ~known => UNCHANGED Cells /\ last'.notes = << >>]_vars

\* switchChain moved the Signer to another chain.
C4_Witness ==
  /\ last.op = "switchChain"
  /\ last.value = TRUE
  /\ last.notes # << >>
  /\ Chain(_account) = last.param.n

\* C5, as stated: after disconnect() both cells are cleared, accounts is the
\* empty list and getClient() throws.
C5_AsStated ==
  last.op = "disconnect" =>
    /\ _account = Null
    /\ _chainsInfo = << >>
    /\ AccountsOf(_account) = << >>
    /\ GetClient(NoChainId, _account, _chainsInfo, walletClient).threw

\* C6: request({method: "eth_accounts"}) never calls the communicator and
\* returns accounts.
C6_EthAccountsIsLocal ==
  /\ call.method # "eth_accounts"
  /\ last.op = "request" /\ last.method = "eth_accounts" =>
       /\ last.outcome = "ok"
       /\ last.value = AccountsOf(_account)
       /\ last.readyCalls = 0
       /\ last.posted = 0
       /\ last.localCalls = << >>

\* eth_accounts answered with the empty list, no account being connected.
C6_Witness ==
  /\ last.op = "request"
  /\ last.method = "eth_accounts"
  /\ last.outcome = "ok"
  /\ last.value = << >>
  /\ _account = Null

\* C7: the constructor throws if and only if the chain list is empty.
C7_ConstructorThrowsIffNoChains ==
  /\ phase # "new" => (phase = "failed" <=> Len(chains) = 0)
  /\ last.op = "constructor" => (last.outcome = "threw" <=> Len(chains) = 0)

\* The constructor returned although the stored account's chain had no chain
\* info: it logged the account out.
C7_Witness ==
  /\ last.op = "constructor"
  /\ last.outcome = "ok"
  /\ last.notes = <<AccountsNote(<< >>)>>
  /\ Len(chains) > 0

\* The calls that only read the account.
ReadsOnly(completed) ==
  \/ completed.op = "constructor" /\ completed.notes = << >>
  \/ completed.op = "request"
       /\ completed.method \in {"eth_accounts", "wallet_getCapabilities"}

\* C8: chain is always a configured chain; when the stored activeChainId is
\* not configured, chain and the account's activeChainId are the first
\* configured chain, and reading them leaves the stored account as it is.
C8_ChainIsConfigured ==
  /\ [](phase = "ready" =>
          /\ \E i \in 1..Len(chains) : chains[i] = Chain(_account)
          /\ _account # Null /\ ~IsConfigured(_account.activeChainId) =>
               /\ Chain(_account) = chains[1]
               /\ Account(_account).activeChainId = chains[1])
  /\ [][ReadsOnly(last') => _account' = _account]_vars

\* The stored activeChainId is not configured, and eth_accounts has just read
\* the account.
C8_Witness ==
  /\ phase = "ready"
  /\ _account # Null
  /\ ~IsConfigured(_account.activeChainId)
  /\ last.op = "request"
  /\ last.method = "eth_accounts"
  /\ last.value = <<_account.address>>

\* C9: constructing a Signer over a stored account whose active chain has no
\* ChainsInfo entry clears both cells: accounts is empty and there is no
\* session client.
C9_FailedResumeClearsState ==
  [][/\ phase = "new"
     /\ phase' = "ready"
     /\ _account # Null
     /\ FindChainInfo(_chainsInfo, Chain(_account)) = Null
     => /\ _account' = Null
        /\ _chainsInfo' = << >>
        /\ AccountsOf(_account') = << >>
        /\ walletClient' = Null]_vars

\* The constructor found a stored account whose chain had no chain info, and
\* cleared both cells.
C9_Witness ==
  /\ last.op = "constructor"
  /\ last.notes = <<AccountsNote(<< >>)>>
  /\ _account = Null
  /\ _chainsInfo = << >>
  /\ walletClient = Null

\* C10: after a handshake() that returns, getClient() throws "Wallet client
\* is not created" when the response had no session, and otherwise returns
\* the client built from the response's address and session and from the
\* contracts of the response's ChainsInfo entry for the chain now active.
C10_ClientAfterHandshake ==
  HandshakeReturned =>
    LET got == GetClient(NoChainId, _account, _chainsInfo, walletClient)
        result == last.response.result
    IN  IF result.account.session = Null
          THEN got.threw /\ got.error = "Wallet client is not created"
          ELSE /\ ~got.threw
               /\ got.value =
                    SessionClient(result.account.address, result.account.session,
                                  FindChainInfo(result.chainsInfo, Chain(_account)).contracts,
                                  Chain(_account))

\* A handshake with a session returned on chain 2: the client holds chain
\* 2's contracts.
C10_Witness ==
  /\ HandshakeReturned
  /\ ResponseAccount.session # Null
  /\ Chain(_account) = 2
  /\ walletClient # Null
  /\ walletClient.contracts = "contracts2"

\* C11, as stated: getClient({chainId}) throws when chainId is not configured,
\* and a client it returns for a configured chainId is bound to that chain
\* and to the contracts ChainsInfo gives for it.
C11_AsStated ==
  Idle => \A chainId \in ChainIds :
            LET got == GetClient(chainId, _account, _chainsInfo, walletClient)
            IN  /\ ~IsConfigured(chainId) => got.threw
                /\ ~got.threw =>
                     /\ got.value.chain = chainId
                     /\ FindChainInfo(_chainsInfo, chainId) # Null
                     /\ got.value.contracts = FindChainInfo(_chainsInfo, chainId).contracts

\* The number a chain id parameter stands for: "0x1" is 1, "0x2" is 2 and
\* "0x10" is 16.
ChainIdOf(param) ==
  IF param.kind = "number" THEN param.n
  ELSE IF param.digits = <<1>> THEN 1
  ELSE IF param.digits = <<2>> THEN 2
  ELSE 16

\* The step that starts request({method: "wallet_switchEthereumChain"}), and
\* the parameter of that request.
SwitchRequestStarts ==
  /\ pc = "idle"
  /\ \/ pc' = "idle" /\ last'.op = "request"
          /\ last'.method = "wallet_switchEthereumChain"
     \/ pc' # "idle" /\ call'.op = "request"
          /\ call'.method = "wallet_switchEthereumChain"

SwitchRequestParam == IF pc' = "idle" THEN last'.param ELSE call'.param

\* C12: wallet_switchEthereumChain takes the chain id as a number or a hex
\* string; when that chain is configured and described by ChainsInfo the
\* request returns null, on that chain, without calling the communicator;
\* otherwise it is forwarded in one message and no step of it changes the
\* cells or the session client.
C12_SwitchRequestLocalOrForwarded ==
  /\ [][SwitchRequestStarts =>
          LET chainId == ChainIdOf(SwitchRequestParam)
              known == IsConfigured(chainId) /\ FindChainInfo(_chainsInfo, chainId) # Null
          IN  IF known
                THEN /\ pc' = "idle"
                     /\ last'.outcome = "ok"
                     /\ last'.value = "null"
                     /\ last'.readyCalls = 0
                     /\ last'.posted = 0
                     /\ Chain(_account') = chainId
                ELSE /\ pc' = "ready"
                     /\ call'.readyCalls = 1
                     /\ call'.posted = << >>
                     /\ UNCHANGED Cells]_vars
  /\ [][call.op = "request" /\ call.method = "wallet_switchEthereumChain" =>
          /\ UNCHANGED Cells
          /\ last'.notes = << >>
          /\ pc = "ready" /\ pc' = "post" =>
               call'.posted = <<CreateRequestMessage(
                                  [method |-> call.method, params |-> call.param],
                                  Chain(_account))>>]_vars

\* wallet_switchEthereumChain with "0x2" moved the Signer from chain 1 to
\* chain 2 and returned null.
C12_Witness ==
  /\ last.op = "request"
  /\ last.method = "wallet_switchEthereumChain"
  /\ last.param = StringParam(<<2>>)
  /\ last.value = "null"
  /\ last.notes # << >>
  /\ Chain(_account) = 2

\* C13: request({method: "wallet_getCapabilities"}) never calls the
\* communicator: it is never in flight, and it has returned the capabilities
\* of the ChainsInfo entry of the active chain under the active chain id, or
\* thrown "Chain info is not set" when ChainsInfo has no such entry.
C13_GetCapabilitiesIsLocal ==
  /\ call.method # "wallet_getCapabilities"
  /\ last.op = "request" /\ last.method = "wallet_getCapabilities" =>
       LET chainInfo == FindChainInfo(_chainsInfo, Chain(_account))
       IN  /\ last.readyCalls = 0
           /\ last.posted = 0
           /\ last.localCalls = << >>
           /\ last.notes = << >>
           /\ IF chainInfo = Null
                THEN last.outcome = "threw" /\ last.error = "Chain info is not set"
                ELSE /\ last.outcome = "ok"
                     /\ last.value = [chainId |-> Chain(_account),
                                      capabilities |-> chainInfo.capabilities]

\* wallet_getCapabilities returned the capabilities of chain 2.
C13_Witness ==
  /\ last.op = "request"
  /\ last.method = "wallet_getCapabilities"
  /\ last.outcome = "ok"
  /\ Chain(_account) = 2
  /\ last.value = [chainId |-> 2, capabilities |-> "capabilities2"]

\* A request() of a method tryLocalHandling has no case for.
OtherRequest(c) ==
  /\ c.op = "request"
  /\ c.method \notin LocalMethods \cup
       {"wallet_switchEthereumChain", "wallet_getCapabilities", "eth_accounts"}

\* C14: a request() of any other method is forwarded: it calls ready() once
\* and nothing local, posts nothing until ready() has resolved, then posts
\* one message that carries the request and the id of the active chain, and
\* returns the result of the response or throws its error.
C14_OtherMethodsAreForwarded ==
  /\ [](pc # "idle" /\ OtherRequest(call) =>
          /\ pc \in {"ready", "post"}
          /\ call.localCalls = << >>
          /\ call.readyCalls = 1
          /\ pc = "ready" => call.posted = << >>
          /\ pc = "post" => Len(call.posted) = 1)
  /\ [][OtherRequest(call') /\ pc' # "idle" /\ call'.posted # call.posted =>
          /\ pc = "ready" /\ pc' = "post"
          /\ call'.posted = <<CreateRequestMessage(
                                [method |-> call.method, params |-> call.param],
                                Chain(_account))>>]_vars
  /\ [][OtherRequest(last') /\ pc' = "idle" =>
          /\ pc # "idle" /\ call.method = last'.method
          /\ UNCHANGED Cells
          /\ last'.localCalls = << >>
          /\ last'.readyCalls = 1
          /\ last'.posted = Len(call.posted)
          /\ IF last'.response = Null
               THEN last'.outcome = "threw" /\ last'.error \in CommErrors
               ELSE /\ pc = "post"
                    /\ last'.posted = 1
                    /\ IF "error" \in DOMAIN last'.response
                         THEN /\ last'.outcome = "threw"
                              /\ last'.error = last'.response.error
                         ELSE /\ last'.outcome = "ok"
                              /\ last'.value = last'.response.result]_vars

\* personal_sign was posted once after ready() and returned the result of the
\* response.
C14_Witness ==
  /\ OtherRequest(last)
  /\ last.readyCalls = 1
  /\ last.posted = 1
  /\ last.outcome = "ok"
  /\ last.response # Null
  /\ last.value = last.response.result

\* C15, as stated: every change of the Account cell notifies the listener in
\* the same step: a non-null account with the list of its one address and
\* with the id `chain` resolves to right after the change, a cleared account
\* with the empty list.
C15_AsStated ==
  [][_account' # _account =>
       IF _account' # Null
         THEN last'.notes = <<AccountsNote(<<_account'.address>>),
                              ChainNote(Chain(_account'))>>
         ELSE last'.notes = <<AccountsNote(<< >>)>>]_vars

\* C16: a metadata provider that throws and a session provider that throws
\* or rejects never end handshake(): the call always goes on to ready(), and
\* the one message it posts is eth_requestAccounts, with the default
\* metadata when the metadata provider threw and with no session preferences
\* when the session provider threw or rejected.
C16_ProvidersNeverFailHandshake ==
  /\ [][pc = "idle" /\ pc' = "idle" => last'.op # "handshake"]_vars
  /\ [][pc = "session" => pc' = "ready" /\ call'.op = "handshake"]_vars
  /\ [](call.op = "handshake" =>
          /\ pc \in {"session", "ready", "post"}
          /\ pc = "session" => call.providers.session = "called"
          /\ pc # "session" => call.providers.session # "called"
          /\ call.readyCalls = IF pc = "session" THEN 0 ELSE 1
          /\ pc # "post" => call.posted = << >>
          /\ pc = "post" =>
               /\ Len(call.posted) = 1
               /\ call.posted[1].action.method = "eth_requestAccounts"
               /\ call.providers.metadata = "threw" =>
                    call.posted[1].action.params.metadata = DefaultMetadata
               /\ call.providers.session \in {"threw", "rejected"} =>
                    call.posted[1].action.params.sessionPreferences = Null)

\* Both providers failed, and eth_requestAccounts is posted all the same.
C16_Witness ==
  /\ pc = "post"
  /\ call.op = "handshake"
  /\ call.providers = [metadata |-> "threw", session |-> "rejected"]
  /\ Len(call.posted) = 1
  /\ call.posted[1].action.params =
       [metadata |-> DefaultMetadata, sessionPreferences |-> Null]

\* A step that is a call of switchChain with the id of the chain that is
\* active when it is called.
SwitchToActiveChain ==
  /\ pc = "idle" /\ pc' = "idle"
  /\ last'.op = "switchChain"
  /\ last'.param.n = Chain(_account)

\* C17, as stated: switchChain with the id of the active chain returns true
\* and changes nothing.
C17_AsStated ==
  [][SwitchToActiveChain =>
       /\ last'.outcome = "ok"
       /\ last'.value = TRUE
       /\ last'.notes = << >>
       /\ UNCHANGED Cells]_vars

\* C17, amended: switchChain with the id of the active chain changes nothing
\* (no write to the Account cell, no notification, no client rebuilt) and
\* does not throw; it returns true when ChainsInfo has an entry for that
\* chain and false when it has none.
C17_SwitchToActiveChainChangesNothing ==
  [][SwitchToActiveChain =>
       /\ last'.outcome = "ok"
       /\ last'.value = (FindChainInfo(_chainsInfo, Chain(_account)) # Null)
       /\ last'.notes = << >>
       /\ UNCHANGED Cells]_vars

\* switchChain with the id of the active chain of a connected account
\* returned true and notified nobody.
C17_Witness ==
  /\ last.op = "switchChain"
  /\ _account # Null
  /\ last.param.n = Chain(_account)
  /\ last.value = TRUE
  /\ last.notes = << >>

\* C18, as stated: between operations a local session client exists exactly
\* when the persisted account has a session, and the client that exists was
\* built from the address and the session of the account and from the
\* contracts ChainsInfo gives for the active chain.
C18_AsStated ==
  Idle =>
    /\ walletClient # Null <=> Session(_account) # Null
    /\ walletClient # Null =>
         LET chainInfo == FindChainInfo(_chainsInfo, Chain(_account))
         IN  /\ chainInfo # Null
             /\ walletClient = SessionClient(Account(_account).address, Session(_account),
                                             chainInfo.contracts, Chain(_account))

\* C19: the Account cell holds null or an account with an address a handshake
\* response gave: only a handshake gives the cell an address, switchChain and
\* wallet_switchEthereumChain leave an empty cell empty, and accounts never
\* lists an undefined address.
C19_AccountComesFromHandshake ==
  /\ [](/\ _account = Null \/ _account.address \in Addresses
        /\ phase = "ready" =>
             \A i \in 1..Len(AccountsOf(_account)) : AccountsOf(_account)[i] # "undefined")
  /\ [][(/\ _account' # Null
         /\ IF _account = Null THEN TRUE ELSE _account'.address # _account.address) =>
          /\ last'.op = "handshake"
          /\ "result" \in DOMAIN last'.response
          /\ _account'.address = last'.response.result.account.address]_vars
  /\ [][(/\ _account = Null
         /\ pc' = "idle"
         /\ \/ last'.op = "switchChain"
            \/ last'.op = "request" /\ last'.method = "wallet_switchEthereumChain") =>
          _account' = Null]_vars

\* switchChain to a configured chain other than the default one, with no
\* account connected, returned false and left the cell empty.
C19_Witness ==
  /\ last.op = "switchChain"
  /\ _account = Null
  /\ IsConfigured(last.param.n)
  /\ last.param.n # Chain(_account)
  /\ last.value = FALSE

\* C20, as stated: a request() that has invoked the local session client
\* never uses the communicator, in flight or completed, whatever the local
\* client returned.
C20_AsStated ==
  /\ call.op = "request" /\ call.localCalls # << >> =>
       call.readyCalls = 0 /\ call.posted = << >>
  /\ last.op = "request" /\ last.localCalls # << >> =>
       last.readyCalls = 0 /\ last.posted = 0

====
